---- MODULE Spec2Model ----
(***************************************************************************)
(* Job orchestration of the AI research backend: the in-memory Job         *)
(* Registry (job_manager.job_statuses / job_topics), the Result Store      *)
(* (one JSON file per job in RESULTS_DIR), the two background pipelines    *)
(* (run_research_job, run_dynamic_research_job) and the HTTP handlers that *)
(* submit jobs and query status and results (api.py).                      *)
(*                                                                         *)
(* Background jobs are plain `def` functions given to BackgroundTasks, so  *)
(* they run on worker threads: every registry or store access of a job is  *)
(* a separate step that interleaves with the other jobs and with the       *)
(* handlers.  A handler's three accesses (job_exists, get_job_status,      *)
(* load_result) are separate steps as well.  The handlers themselves are   *)
(* `async def` without an await, so the event loop serves one request at   *)
(* a time: `query` holds that request until its response has been sent.    *)
(***************************************************************************)
EXTENDS Integers, Sequences, FiniteSets, TLC

VARIABLES
    job_statuses,   \* job_manager.job_statuses: job id -> status
    job_topics,     \* job_manager.job_topics:   job id -> topic
    results_dir,    \* RESULTS_DIR: job id -> content of <job id>.json
    variant,        \* which pipeline BackgroundTasks runs for a job
    pc,             \* position of each job's background function
    papers,         \* local `papers` of run_dynamic_research_job
    result_data,    \* local `result_data` of the running job
    error_message,  \* local `error_message` of the except handler
    query,          \* the HTTP query being served: kind, job id, position, status read
    response,       \* what that query answered
    llm_response,   \* local `response` of run_dynamic_research_job: the LLM's reply
    log,            \* history: the positions each background function went through
    input,          \* argument of the function a function-level specification applies
    output,         \* what that function returned
    phase,          \* position of a function-level specification
    download_dir,   \* arxiv_tool.py: the directory downloaded_papers and its PDF files
    retrieval       \* the locals and the position of each search_papers call

vars == <<job_statuses, job_topics, results_dir, variant, pc, papers,
          result_data, error_message, query, response, llm_response,
          log, input, output, phase, download_dir, retrieval>>

----------------------------------------------------------------------------
(* Bounds and input domains *)

\* number of jobs submitted in one process lifetime
NumJobs == 2

\* identifiers uuid4 hands out in this process
JobIds == 1..NumJobs

\* an identifier of an earlier process: its result file is still on disk,
\* and create_job never returns it
OldId == 0

AllIds == JobIds \cup {OldId}

\* ResearchRequest.topic is any string, the empty one included
Topics == {"", "AI"}

\* the topics of the requests of Spec; SpecAnyTopic submits every topic
NonEmptyTopics == {"AI"}

\* str(e) of the exceptions the external calls raise; an exception built
\* without arguments has the empty string
Messages == {"", "I/O error"}

\* datetime.now().isoformat(): an opaque, non-empty timestamp
Timestamp == "2025-01-01T00:00:00"

\* arxiv_tool.py, lines 46-54: the paper of a search hit before extraction
paper_info(hit) ==
    [title |-> hit.title, authors |-> <<"A">>, published |-> "2024-01-01",
     summary |-> "abs", pdf_url |-> "https://arxiv.org/pdf/1",
     content |-> "", images |-> <<>>]

\* lines 99-100: the text of the first pages and the paths of the images
Extracted(info) ==
    [info EXCEPT !.content = "text",
                 !.images = <<"/static/extracted_images/1_p0_i0.png">>]

ExtractionError == "Error extracting text/images: cannot open broken document"

\* an except clause that keeps the images extracted before the error
ExtractionFailedWithImages(info) ==
    [info EXCEPT !.content = ExtractionError,
                 !.images = <<"/static/extracted_images/1_p0_i0.png">>]

\* lines 107-109: the except clause of the extraction
ExtractionFailed(info) == [info EXCEPT !.content = ExtractionError]

RECURSIVE ProcessHits(_, _)
\* lines 45-111, the loop over the hits: a download that raises (line 62 is
\* outside the inner try) leaves the loop, an extraction that raises is
\* caught and the paper is appended all the same
ProcessHits(hits, results) ==
    IF hits = <<>> THEN [raised |-> FALSE, papers |-> results]
    ELSE IF Head(hits).fetch = "raise" THEN [raised |-> TRUE, papers |-> <<>>]
    ELSE ProcessHits(Tail(hits),
                     Append(results,
                            IF Head(hits).extract = "ok"
                            THEN Extracted(paper_info(Head(hits)))
                            ELSE ExtractionFailed(paper_info(Head(hits)))))

\* lines 27-116, the body of the try: the query of the index, then the loop
SearchBody(scenario) ==
    IF scenario.index = "raise" THEN [raised |-> TRUE, papers |-> <<>>]
    ELSE ProcessHits(scenario.hits, <<>>)

\* search_papers without its outer try
search_papers_unguarded(scenario) == SearchBody(scenario)

\* search_papers: whatever the body raises is caught and [] returned
search_papers(scenario) ==
    IF SearchBody(scenario).raised THEN [raised |-> FALSE, papers |-> <<>>]
    ELSE SearchBody(scenario)

Hit1 == [title |-> "P", fetch |-> "ok", extract |-> "ok"]
Paper1 == Extracted(paper_info(Hit1))

\* what happens in the searches of the jobs: the index cannot be reached, a
\* download raises, or one paper is found and read
SearchScenarios ==
    { [index |-> "raise", hits |-> <<>>],
      [index |-> "ok", hits |-> <<[Hit1 EXCEPT !.fetch = "raise"]>>],
      [index |-> "ok", hits |-> <<Hit1>>] }

\* what ArxivSearchTool.search_papers returns
PaperLists == {search_papers(scenario).papers : scenario \in SearchScenarios}

\* report and sources computed from the crew's result
CrewOutputs == { [report |-> "R", sources |-> <<"https://a.com/x">>] }

\* how a save_result call ends: written; open() raises and the directory is
\* unchanged; the write raises after open(.., 'w') created/truncated the file
SaveOutcomes == {"ok", "raise_open", "raise_write"}

----------------------------------------------------------------------------
(* Python values *)

None == <<>>
Some(x) == <<x>>

NoRecord == [none |-> TRUE]

\* dict.get(key, default)
Get(d, key, default) == IF key \in DOMAIN d THEN d[key] ELSE default

\* a file of RESULTS_DIR: valid JSON of a dict, or a truncated write
\* the JSON document model: a tree of tagged values
JString(s) == [t |-> "string", v |-> s]
JArray(items) == [t |-> "array", v |-> items]
JObject(members) == [t |-> "object", v |-> members]

\* the keys of a result whose value is a list of strings, and the key whose
\* value is a list of dicts; every other value is a str
StringListKeys == {"sources", "authors", "images", "key_insights", "generated_diagrams"}
DictListKeys == {"papers"}

RECURSIVE json_dump(_)
\* json.dump of the value stored under a key
json_dump_value(key, value) ==
    IF key \in StringListKeys
    THEN JArray([i \in DOMAIN value |-> JString(value[i])])
    ELSE IF key \in DictListKeys
         THEN JArray([i \in DOMAIN value |-> json_dump(value[i])])
         ELSE JString(value)

\* json.dump of a dict: an object with one member per key
json_dump(result) ==
    JObject([key \in DOMAIN result |-> json_dump_value(key, result[key])])

RECURSIVE json_load(_)
\* json.load: strings to str, arrays to lists, objects to dicts
json_load(doc) ==
    CASE doc.t = "string" -> doc.v
      [] doc.t = "array" -> [i \in DOMAIN doc.v |-> json_load(doc.v[i])]
      [] doc.t = "object" -> [key \in DOMAIN doc.v |-> json_load(doc.v[key])]

\* the file a completed json.dump leaves, and the file a json.dump that
\* raised part way leaves: a prefix of the text, which is not a document
JsonFile(result) == [valid |-> TRUE, data |-> json_dump(result)]
PartialFile == [valid |-> FALSE, data |-> JString("")]

----------------------------------------------------------------------------
(* job_manager.py *)

\* create_job with the topic stored under the wrong value
create_job_no_topic(job_id, topic) ==
    /\ job_statuses' = (job_id :> "pending") @@ job_statuses
    /\ job_topics' = (job_id :> "") @@ job_topics

\* create_job: a fresh uuid4, status pending, topic recorded
create_job(job_id, topic) ==
    /\ job_statuses' = (job_id :> "pending") @@ job_statuses
    /\ job_topics' = (job_id :> topic) @@ job_topics

\* update_job_status that records the status of an id it does not know
update_job_status_upsert(job_id, status) ==
    job_statuses' = (job_id :> status) @@ job_statuses

\* update_job_status that gives the status to every job of the registry
update_job_status_all(job_id, status) ==
    job_statuses' = [k \in DOMAIN job_statuses |-> status]

\* update_job_status: overwrite when known, nothing otherwise
update_job_status(job_id, status) ==
    job_statuses' = IF job_id \in DOMAIN job_statuses
                    THEN [job_statuses EXCEPT ![job_id] = status]
                    ELSE job_statuses

\* get_job_status: job_statuses.get(job_id); str(None) is "None"
get_job_status(job_id) ==
    IF job_id \in DOMAIN job_statuses THEN job_statuses[job_id] ELSE "None"

\* job_exists answering from the result files instead of the registry
job_exists_by_file(job_id) ==
    job_id \in DOMAIN job_statuses \/ job_id \in DOMAIN results_dir

\* job_exists
job_exists(job_id) == job_id \in DOMAIN job_statuses

\* get_job_topic: job_topics.get(job_id)
get_job_topic(job_id) ==
    IF job_id \in DOMAIN job_topics THEN Some(job_topics[job_id]) ELSE None

\* save_result that writes nothing
save_result_lost(job_id, result, outcome) == results_dir' = results_dir

\* a save_result that opens with mode 'x' and keeps an existing file
save_result_exclusive(job_id, result, outcome) ==
    results_dir' =
        IF job_id \in DOMAIN results_dir THEN results_dir
        ELSE IF outcome = "ok" THEN (job_id :> JsonFile(result)) @@ results_dir
        ELSE results_dir

\* save_result: open(result_file, 'w') then json.dump
save_result(job_id, result, outcome) ==
    results_dir' =
        CASE outcome = "ok" -> (job_id :> JsonFile(result)) @@ results_dir
          [] outcome = "raise_open" -> results_dir
          [] outcome = "raise_write" -> (job_id :> PartialFile) @@ results_dir

\* load_result: None when the file is missing, the dict when it decodes,
\* and json.load raises on a truncated file
load_result(job_id) ==
    IF job_id \notin DOMAIN results_dir THEN [kind |-> "none", data |-> NoRecord]
    ELSE IF results_dir[job_id].valid
         THEN [kind |-> "dict", data |-> json_load(results_dir[job_id].data)]
         ELSE [kind |-> "raise", data |-> NoRecord]

----------------------------------------------------------------------------
(* api.py: the parsing of the LLM's reply, lines 264-300 *)

\* A text is the sequence of its tokens. The tokens of a reply: the fence
\* marker, the word json, white space, braces, a comma, a word of prose, and
\* the members of a JSON object, each a key with its value.
\* the marker of three backquotes
FENCE == "<fence>"
SummaryS == "\"summary\": \"S\""
SummaryT == "\"summary\": \"T\""
InsightsA == "\"key_insights\": [\"a\"]"
DiagramsG == "\"generated_diagrams\": [\"graph TD; A-->B;\"]"
Members == {SummaryS, SummaryT, InsightsA, DiagramsG}

\* "" as a text
EmptyText == <<>>

MemberKey(token) ==
    CASE token \in {SummaryS, SummaryT} -> "summary"
      [] token = InsightsA -> "key_insights"
      [] token = DiagramsG -> "generated_diagrams"

MemberValue(token) ==
    CASE token = SummaryS -> <<"S">>
      [] token = SummaryT -> <<"T">>
      [] token = InsightsA -> <<"a">>
      [] token = DiagramsG -> <<"graph TD; A-->B;">>

\* \s* from position k: the first position that is not white space
SkipSpace(text, k) ==
    CHOOSE m \in k..Len(text) + 1 :
        /\ \A i \in k..m - 1 : text[i] = " "
        /\ m = Len(text) + 1 \/ text[m] # " "

Min(set) == CHOOSE x \in set : \A y \in set : x <= y
Max(set) == CHOOSE x \in set : \A y \in set : x >= y

NoMatch == [found |-> FALSE, group |-> <<>>]

\* re.search of the fenced-block pattern, lines 268-270: the leftmost
\* fence after which, json and white space skipped, a brace opens; group 1
\* runs to the first closing brace that white space and a fence follow
code_block_match(reply) ==
    LET Open(i) == SkipSpace(reply,
                             IF i + 1 <= Len(reply) /\ reply[i + 1] = "json"
                             THEN i + 2 ELSE i + 1)
        Closes(i) == {e \in Open(i) + 1..Len(reply) :
                         /\ reply[e] = "}"
                         /\ SkipSpace(reply, e + 1) <= Len(reply)
                         /\ reply[SkipSpace(reply, e + 1)] = FENCE}
        Starts == {i \in 1..Len(reply) :
                      /\ reply[i] = FENCE
                      /\ Open(i) <= Len(reply)
                      /\ reply[Open(i)] = "{"
                      /\ Closes(i) # {}}
    IN  IF Starts = {} THEN NoMatch
        ELSE [found |-> TRUE,
              group |-> SubSeq(reply, Open(Min(Starts)), Min(Closes(Min(Starts))))]

\* re.search(r"\{[\s\S]*\}", reply): from the first opening brace to the
\* last closing brace
json_match(reply) ==
    LET opens == {i \in 1..Len(reply) : reply[i] = "{"}
        closes == {i \in 1..Len(reply) : reply[i] = "}"}
    IN  IF opens = {} \/ closes = {} \/ Max(closes) < Min(opens) THEN NoMatch
        ELSE [found |-> TRUE, group |-> SubSeq(reply, Min(opens), Max(closes))]

\* llm_data = None
NoData == [ok |-> FALSE, value |-> <<>>]

\* json.loads of a text that opens and closes with a brace: a dict when white
\* space aside the text between the braces is members separated by commas (a
\* repeated key keeps its last value), JSONDecodeError otherwise
json_loads(text) ==
    LET inner == SelectSeq(SubSeq(text, 2, Len(text) - 1), LAMBDA token : token # " ")
        wellformed ==
            \/ inner = <<>>
            \/ /\ Len(inner) % 2 = 1
               /\ \A i \in 1..Len(inner) :
                     IF i % 2 = 1 THEN inner[i] \in Members ELSE inner[i] = ","
        keys == {MemberKey(inner[i]) : i \in {n \in 1..Len(inner) : n % 2 = 1}}
        last(key) == Max({i \in 1..Len(inner) :
                             i % 2 = 1 /\ MemberKey(inner[i]) = key})
    IN  IF wellformed
        THEN [ok |-> TRUE, value |-> [key \in keys |-> MemberValue(inner[last(key)])]]
        ELSE NoData

\* not llm_data: None and the empty dict are both false
Falsy(llm_data) == ~llm_data.ok \/ DOMAIN llm_data.value = {}

RECURSIVE Replace(_, _)
\* str.replace(old, ""), left to right
Replace(text, old) ==
    IF Len(text) < Len(old) THEN text
    ELSE IF SubSeq(text, 1, Len(old)) = old
         THEN Replace(SubSeq(text, Len(old) + 1, Len(text)), old)
         ELSE <<text[1]>> \o Replace(Tail(text), old)

\* str.lstrip()
StripLeft(text) ==
    LET solid == {i \in 1..Len(text) : text[i] # " "}
    IN  IF solid = {} THEN EmptyText ELSE SubSeq(text, Min(solid), Len(text))

\* str.strip()
Strip(text) ==
    LET solid == {i \in 1..Len(text) : text[i] # " "}
    IN  IF solid = {} THEN EmptyText ELSE SubSeq(text, Min(solid), Max(solid))

InsightsSentinel == <<"Could not parse structured insights from LLM response.">>

\* the parsing block with an except clause that lets the exception through
whole_text_fallback_reraised(reply) == [raised |-> TRUE, llm_data |-> NoRecord]

\* lines 290-300: the except clause builds llm_data from the whole reply
whole_text_fallback(reply) ==
    [raised |-> FALSE,
     llm_data |-> [summary |-> Strip(Replace(Replace(reply, <<FENCE, "json">>),
                                             <<FENCE>>)),
                   key_insights |-> InsightsSentinel,
                   generated_diagrams |-> <<>>]]

\* lines 264-300: llm_data from the fenced block, else from the outermost
\* braces, else (ValueError, caught) from the whole text
parse_llm_response(reply) ==
    LET code_block == code_block_match(reply)
        first == IF code_block.found THEN json_loads(code_block.group) ELSE NoData
        braces == json_match(reply)
        second == IF Falsy(first) /\ braces.found /\ json_loads(braces.group).ok
                  THEN json_loads(braces.group)
                  ELSE first
    IN  IF Falsy(second) THEN whole_text_fallback(reply)
        ELSE [raised |-> FALSE, llm_data |-> second.value]

\* lines 310-314: what result_data takes from llm_data
ParsedFields(llm_data) ==
    [summary |-> Get(llm_data, "summary", EmptyText),
     key_insights |-> Get(llm_data, "key_insights", <<>>),
     generated_diagrams |-> Get(llm_data, "generated_diagrams", <<>>)]

\* the replies of the LLM while jobs run: a fenced JSON object
LlmResponses ==
    { <<FENCE, "json", " ", "{", SummaryS, ",", InsightsA, ",", DiagramsG, "}",
        " ", FENCE>> }

\* llm_data after the parsing block of run_dynamic_research_job
LlmData == {parse_llm_response(reply).llm_data : reply \in LlmResponses}

----------------------------------------------------------------------------
(* api.py: the background pipelines *)

\* message of the exception a failing save_result raises (an OSError or a
\* TypeError of json.dump: never empty)
SaveError == "I/O error"

\* message of an exception of the body of search_papers
SearchError == "Connection error"

\* message of the ValueError of line 288
ParseError == "No valid JSON found in response"

\* result_data of the success path of run_research_job
StaticResult(job_id, topic, out) ==
    [report |-> out.report, sources |-> out.sources,
     completed_at |-> Timestamp, jobId |-> job_id, topic |-> topic]

\* result_data of the except handler of run_research_job
StaticErrorResult(job_id, topic, msg) ==
    [report |-> "", sources |-> <<>>, completed_at |-> Timestamp,
     jobId |-> job_id, topic |-> topic, error |-> msg]

\* result_data of the success path of run_dynamic_research_job
DynamicResult(job_id, topic, found, llm_data) ==
    [topic |-> topic,
     summary |-> ParsedFields(llm_data).summary,
     papers |-> found,
     key_insights |-> ParsedFields(llm_data).key_insights,
     generated_diagrams |-> ParsedFields(llm_data).generated_diagrams,
     completed_at |-> Timestamp, jobId |-> job_id]

\* result_data of the except handler of run_dynamic_research_job
DynamicErrorResult(job_id, topic, msg) ==
    [error |-> msg, completed_at |-> Timestamp, jobId |-> job_id, topic |-> topic]

\* an except clause that sets the status without saving the error record
ExceptUnsaved(j, msg, rec) ==
    /\ error_message' = [error_message EXCEPT ![j] = Some(msg)]
    /\ result_data' = [result_data EXCEPT ![j] = rec]
    /\ pc' = [pc EXCEPT ![j] = "set_failed"]

\* the except clause is entered with exception message msg
Except(j, msg, rec) ==
    /\ error_message' = [error_message EXCEPT ![j] = Some(msg)]
    /\ result_data' = [result_data EXCEPT ![j] = rec]
    /\ pc' = [pc EXCEPT ![j] = "except_save"]

\* BackgroundTasks starts a task once the response of the request that added
\* it has been sent
Started(j) == ~(query.kind = "submit" /\ query.job_id = j)

\* the background function returns (or its exception leaves it): locals die
Return(j, at) ==
    /\ pc' = [pc EXCEPT ![j] = at]
    /\ result_data' = [result_data EXCEPT ![j] = NoRecord]
    /\ papers' = [papers EXCEPT ![j] = <<>>]
    /\ error_message' = [error_message EXCEPT ![j] = None]

\* run_research_job without its first status update
static_set_running_skipped(j) ==
    /\ pc[j] = "queued" /\ variant[j] = "static"
    /\ Started(j)
    /\ pc' = [pc EXCEPT ![j] = "kickoff"]
    /\ UNCHANGED <<job_statuses, job_topics, results_dir, variant, papers,
                   result_data, error_message, query, response>>
    /\ UNCHANGED llm_response

\* run_research_job, line 78
static_set_running(j) ==
    /\ pc[j] = "queued" /\ variant[j] = "static"
    /\ Started(j)
    /\ update_job_status(j, "running")
    /\ pc' = [pc EXCEPT ![j] = "kickoff"]
    /\ UNCHANGED <<job_topics, results_dir, variant, papers, result_data,
                   error_message, query, response>>
    /\ UNCHANGED llm_response

\* run_research_job, lines 80-136: the crew runs and the record is assembled,
\* or something in between raises
static_kickoff(j) ==
    /\ pc[j] = "kickoff" /\ variant[j] = "static"
    /\ \/ \E out \in CrewOutputs :
            /\ result_data' = [result_data EXCEPT
                                 ![j] = StaticResult(j, job_topics[j], out)]
            /\ pc' = [pc EXCEPT ![j] = "save"]
            /\ UNCHANGED error_message
       \/ \E msg \in Messages :
            Except(j, msg, StaticErrorResult(j, job_topics[j], msg))
    /\ UNCHANGED <<job_statuses, job_topics, results_dir, variant, papers,
                   query, response>>
    /\ UNCHANGED llm_response

\* run_research_job, line 139
static_save(j) ==
    /\ pc[j] = "save" /\ variant[j] = "static"
    /\ \E outcome \in SaveOutcomes :
         /\ save_result(j, result_data[j], outcome)
         /\ IF outcome = "ok"
            THEN /\ pc' = [pc EXCEPT ![j] = "set_completed"]
                 /\ UNCHANGED <<result_data, error_message>>
            ELSE Except(j, SaveError,
                        StaticErrorResult(j, job_topics[j], SaveError))
    /\ UNCHANGED <<job_statuses, job_topics, variant, papers, query, response>>
    /\ UNCHANGED llm_response

\* run_research_job, line 140
static_set_completed(j) ==
    /\ pc[j] = "set_completed" /\ variant[j] = "static"
    /\ update_job_status(j, "completed")
    /\ Return(j, "done")
    /\ UNCHANGED <<job_topics, results_dir, variant, query, response>>
    /\ UNCHANGED llm_response

\* run_research_job, lines 142-154: the handler saves the error record; a
\* save that raises here leaves the function with the exception
static_except_save(j) ==
    /\ pc[j] = "except_save" /\ variant[j] = "static"
    /\ \E outcome \in SaveOutcomes :
         /\ save_result(j, result_data[j], outcome)
         /\ IF outcome = "ok"
            THEN /\ pc' = [pc EXCEPT ![j] = "set_failed"]
                 /\ UNCHANGED <<result_data, papers, error_message>>
            ELSE Return(j, "crashed")
    /\ UNCHANGED <<job_statuses, job_topics, variant, query, response>>
    /\ UNCHANGED llm_response

\* run_research_job, line 155
static_set_failed(j) ==
    /\ pc[j] = "set_failed" /\ variant[j] = "static"
    /\ update_job_status(j, "failed")
    /\ Return(j, "done")
    /\ UNCHANGED <<job_topics, results_dir, variant, query, response>>
    /\ UNCHANGED llm_response

run_research_job(j) ==
    \/ static_set_running(j)
    \/ static_kickoff(j)
    \/ static_save(j)
    \/ static_set_completed(j)
    \/ static_except_save(j)
    \/ static_set_failed(j)

\* run_dynamic_research_job, line 220
dynamic_set_running(j) ==
    /\ pc[j] = "queued" /\ variant[j] = "dynamic"
    /\ Started(j)
    /\ update_job_status(j, "running")
    /\ pc' = [pc EXCEPT ![j] = "search"]
    /\ UNCHANGED <<job_topics, results_dir, variant, papers, result_data,
                   error_message, query, response>>
    /\ UNCHANGED llm_response

\* run_dynamic_research_job, lines 223-228: search_papers is called (the
\* module and the class were loaded, and the tool constructed once, when
\* api.py imported crew.py, lines 10 and 57 there); an exception leaving
\* search_papers would enter the except clause of the job
dynamic_search_papers(j) ==
    /\ pc[j] = "search" /\ variant[j] = "dynamic"
    /\ \E scenario \in SearchScenarios :
         IF search_papers(scenario).raised
         THEN /\ Except(j, SearchError,
                        DynamicErrorResult(j, job_topics[j], SearchError))
              /\ UNCHANGED papers
         ELSE /\ papers' = [papers EXCEPT ![j] = search_papers(scenario).papers]
              /\ pc' = [pc EXCEPT ![j] = "llm"]
              /\ UNCHANGED <<result_data, error_message>>
    /\ UNCHANGED <<job_statuses, job_topics, results_dir, variant,
                   query, response>>
    /\ UNCHANGED llm_response

\* a job that does not call the LLM when the search found nothing
dynamic_llm_call_unless_empty(j) ==
    /\ pc[j] = "llm" /\ variant[j] = "dynamic"
    /\ IF papers[j] = <<>>
       THEN /\ result_data' = [result_data EXCEPT
                   ![j] = DynamicResult(j, job_topics[j], papers[j], <<>>)]
            /\ pc' = [pc EXCEPT ![j] = "save"]
            /\ UNCHANGED <<error_message, llm_response>>
       ELSE \E reply \in LlmResponses :
                /\ llm_response' = [llm_response EXCEPT ![j] = Some(reply)]
                /\ pc' = [pc EXCEPT ![j] = "parse"]
                /\ UNCHANGED <<result_data, error_message>>
    /\ UNCHANGED <<job_statuses, job_topics, results_dir, variant, papers,
                   query, response>>

\* run_dynamic_research_job, lines 231-262: the prompt is built and
\* groq_llm.call returns the reply, or raises
dynamic_llm_call(j) ==
    /\ pc[j] = "llm" /\ variant[j] = "dynamic"
    /\ \/ \E reply \in LlmResponses :
            /\ llm_response' = [llm_response EXCEPT ![j] = Some(reply)]
            /\ pc' = [pc EXCEPT ![j] = "parse"]
            /\ UNCHANGED <<result_data, error_message>>
       \/ \E msg \in Messages :
            /\ Except(j, msg, DynamicErrorResult(j, job_topics[j], msg))
            /\ UNCHANGED llm_response
    /\ UNCHANGED <<job_statuses, job_topics, results_dir, variant, papers,
                   query, response>>

\* the parsing block applied to each reply the LLM can give, tabulated
ParsedReplies == [reply \in LlmResponses |-> parse_llm_response(reply)]

\* run_dynamic_research_job, lines 264-316: the reply is parsed into
\* llm_data and result_data is assembled; the reply is not read afterwards
dynamic_parse(j) ==
    /\ pc[j] = "parse" /\ variant[j] = "dynamic"
    /\ LET parsed == ParsedReplies[llm_response[j][1]]
       IN  IF parsed.raised
           THEN Except(j, ParseError,
                       DynamicErrorResult(j, job_topics[j], ParseError))
           ELSE /\ result_data' = [result_data EXCEPT
                       ![j] = DynamicResult(j, job_topics[j], papers[j],
                                            parsed.llm_data)]
                /\ pc' = [pc EXCEPT ![j] = "save"]
                /\ UNCHANGED error_message
    /\ llm_response' = [llm_response EXCEPT ![j] = None]
    /\ UNCHANGED <<job_statuses, job_topics, results_dir, variant, papers,
                   query, response>>

\* run_dynamic_research_job with the exception of save_result swallowed
dynamic_save_swallowed(j) ==
    /\ pc[j] = "save" /\ variant[j] = "dynamic"
    /\ \E outcome \in SaveOutcomes : save_result(j, result_data[j], outcome)
    /\ pc' = [pc EXCEPT ![j] = "set_completed"]
    /\ UNCHANGED <<job_statuses, job_topics, variant, papers, result_data,
                   error_message, query, response>>
    /\ UNCHANGED llm_response

\* run_dynamic_research_job, line 318
dynamic_save(j) ==
    /\ pc[j] = "save" /\ variant[j] = "dynamic"
    /\ \E outcome \in SaveOutcomes :
         /\ save_result(j, result_data[j], outcome)
         /\ IF outcome = "ok"
            THEN /\ pc' = [pc EXCEPT ![j] = "set_completed"]
                 /\ UNCHANGED <<result_data, error_message>>
            ELSE Except(j, SaveError,
                        DynamicErrorResult(j, job_topics[j], SaveError))
    /\ UNCHANGED <<job_statuses, job_topics, variant, papers, query, response>>
    /\ UNCHANGED llm_response

\* run_dynamic_research_job, line 319
dynamic_set_completed(j) ==
    /\ pc[j] = "set_completed" /\ variant[j] = "dynamic"
    /\ update_job_status(j, "completed")
    /\ Return(j, "done")
    /\ UNCHANGED <<job_topics, results_dir, variant, query, response>>
    /\ UNCHANGED llm_response

\* an except clause that sets failed also when its save_result raised
dynamic_except_save_swallowed(j) ==
    /\ pc[j] = "except_save" /\ variant[j] = "dynamic"
    /\ \E outcome \in SaveOutcomes : save_result(j, result_data[j], outcome)
    /\ pc' = [pc EXCEPT ![j] = "set_failed"]
    /\ UNCHANGED <<job_statuses, job_topics, variant, papers, result_data,
                   error_message, query, response>>
    /\ UNCHANGED llm_response

\* run_dynamic_research_job, lines 321-330
dynamic_except_save(j) ==
    /\ pc[j] = "except_save" /\ variant[j] = "dynamic"
    /\ \E outcome \in SaveOutcomes :
         /\ save_result(j, result_data[j], outcome)
         /\ IF outcome = "ok"
            THEN /\ pc' = [pc EXCEPT ![j] = "set_failed"]
                 /\ UNCHANGED <<result_data, papers, error_message>>
            ELSE Return(j, "crashed")
    /\ UNCHANGED <<job_statuses, job_topics, variant, query, response>>
    /\ UNCHANGED llm_response

\* run_dynamic_research_job, line 331
dynamic_set_failed(j) ==
    /\ pc[j] = "set_failed" /\ variant[j] = "dynamic"
    /\ update_job_status(j, "failed")
    /\ Return(j, "done")
    /\ UNCHANGED <<job_topics, results_dir, variant, query, response>>
    /\ UNCHANGED llm_response

run_dynamic_research_job(j) ==
    \/ dynamic_set_running(j)
    \/ dynamic_search_papers(j)
    \/ dynamic_llm_call(j)
    \/ dynamic_parse(j)
    \/ dynamic_save(j)
    \/ dynamic_set_completed(j)
    \/ dynamic_except_save(j)
    \/ dynamic_set_failed(j)

----------------------------------------------------------------------------
(* api.py: the HTTP handlers *)

NoQuery == [kind |-> "none", job_id |-> OldId, pc |-> "idle", status |-> "None"]
NoResponse == [code |-> 0, detail |-> "", body |-> NoRecord]

HTTPException(status_code, detail_text) ==
    [code |-> status_code, detail |-> detail_text, body |-> NoRecord]
Ok(model) == [code |-> 200, detail |-> "", body |-> model]

JobStatusResponse(id, st, tp) == [job_id |-> id, status |-> st, topic |-> tp]

\* models.PaperData keeps its declared fields (content is not one of them)
PaperData(p) ==
    [title |-> p.title, authors |-> p.authors, published |-> p.published,
     summary |-> p.summary, pdf_url |-> p.pdf_url, images |-> p.images]

\* submit_research: create_job, add_task, answer "pending".  The task is
\* started only after the response has been sent.
submit_research(job_id, topic) ==
    /\ query.kind = "none"
    /\ job_id \in JobIds \ DOMAIN job_statuses
    /\ create_job(job_id, topic)
    /\ variant' = [variant EXCEPT ![job_id] = "static"]
    /\ pc' = [pc EXCEPT ![job_id] = "queued"]
    /\ query' = [kind |-> "submit", job_id |-> job_id, pc |-> "responded",
                 status |-> "None"]
    /\ response' = Ok(JobStatusResponse(job_id, "pending", topic))
    /\ UNCHANGED <<results_dir, papers, result_data, error_message>>
    /\ UNCHANGED llm_response

\* submit_dynamic_research
submit_dynamic_research(job_id, topic) ==
    /\ query.kind = "none"
    /\ job_id \in JobIds \ DOMAIN job_statuses
    /\ create_job(job_id, topic)
    /\ variant' = [variant EXCEPT ![job_id] = "dynamic"]
    /\ pc' = [pc EXCEPT ![job_id] = "queued"]
    /\ query' = [kind |-> "submit", job_id |-> job_id, pc |-> "responded",
                 status |-> "None"]
    /\ response' = Ok(JobStatusResponse(job_id, "pending", topic))
    /\ UNCHANGED <<results_dir, papers, result_data, error_message>>
    /\ UNCHANGED llm_response

\* a request for job_id arrives at one of the query endpoints; its first
\* statement is the job_exists test
Arrive(kind, job_id) ==
    /\ query.kind = "none"
    /\ IF job_exists(job_id)
       THEN /\ query' = [kind |-> kind, job_id |-> job_id, pc |-> "exists",
                         status |-> "None"]
            /\ UNCHANGED response
       ELSE /\ query' = [kind |-> kind, job_id |-> job_id, pc |-> "responded",
                         status |-> "None"]
            /\ response' = HTTPException(404, "Job not found")

\* the handler answers
Respond(r) ==
    /\ query' = [query EXCEPT !.pc = "responded"]
    /\ response' = r

\* `topic` of get_research_status: the registry's topic, or when that is
\* falsy the result file's topic, or "Unknown"
StatusTopic(job_id) ==
    LET topic == get_job_topic(job_id)
        result == load_result(job_id)
    IN  IF topic # None /\ topic[1] # ""
        THEN topic[1]
        ELSE IF result.kind = "dict"
             THEN Get(result.data, "topic", "Unknown")
             ELSE "Unknown"

\* get_research_status raises (an unhandled exception, HTTP 500) when it
\* falls back to a result file that does not decode
StatusTopicRaises(job_id) ==
    LET topic == get_job_topic(job_id)
    IN  /\ (topic = None \/ topic[1] = "")
        /\ load_result(job_id).kind = "raise"

\* get_research_status
get_research_status ==
    /\ \/ \E job_id \in AllIds : Arrive("status", job_id)
       \/ /\ query.kind = "status" /\ query.pc = "exists"
          /\ query' = [query EXCEPT !.pc = "status",
                                    !.status = get_job_status(query.job_id)]
          /\ UNCHANGED response
       \/ /\ query.kind = "status" /\ query.pc = "status"
          /\ IF StatusTopicRaises(query.job_id)
             THEN Respond(HTTPException(500, "Internal Server Error"))
             ELSE Respond(Ok(JobStatusResponse(query.job_id, query.status,
                                               StatusTopic(query.job_id))))
    /\ UNCHANGED <<job_statuses, job_topics, results_dir, variant, pc, papers,
                   result_data, error_message>>
    /\ UNCHANGED llm_response

\* the status gate with the running case forgotten
NotReadyPendingOnly(status) == status = "pending"

\* the status gate of both result endpoints
NotReady(status) == status = "pending" \/ status = "running"

\* lines 200-214 of get_research_result
StaticResultAnswer(job_id, status) ==
    LET result == load_result(job_id)
    IN  CASE result.kind = "raise" -> HTTPException(500, "Internal Server Error")
          [] result.kind = "none" -> HTTPException(404, "Result not found")
          [] status = "failed" /\ result.kind = "dict" ->
                HTTPException(500, Get(result.data, "error", "Unknown error occurred"))
          [] OTHER ->
                Ok([report |-> Get(result.data, "report", ""),
                    sources |-> Get(result.data, "sources", <<>>),
                    completed_at |-> Get(result.data, "completed_at", ""),
                    jobId |-> Get(result.data, "jobId", job_id),
                    topic |-> Get(result.data, "topic", "")])

\* get_research_result
get_research_result ==
    /\ \/ \E job_id \in AllIds : Arrive("result", job_id)
       \/ /\ query.kind = "result" /\ query.pc = "exists"
          /\ LET status == get_job_status(query.job_id)
             IN  IF NotReady(status)
                 THEN /\ query' = [query EXCEPT !.pc = "responded",
                                                !.status = status]
                      /\ response' = HTTPException(400, "Job is still " \o status)
                 ELSE /\ query' = [query EXCEPT !.pc = "status",
                                                !.status = status]
                      /\ UNCHANGED response
       \/ /\ query.kind = "result" /\ query.pc = "status"
          /\ Respond(StaticResultAnswer(query.job_id, query.status))
    /\ UNCHANGED <<job_statuses, job_topics, results_dir, variant, pc, papers,
                   result_data, error_message>>
    /\ UNCHANGED llm_response

\* papers of the response model: each stored paper read as PaperData
ResponsePapers(stored) == [i \in DOMAIN stored |-> PaperData(stored[i])]

\* lines 364-379 of get_dynamic_research_result; generated_diagrams is not
\* passed to the response model and takes its default, the empty list
DynamicResultAnswer(job_id, status) ==
    LET result == load_result(job_id)
    IN  CASE result.kind = "raise" -> HTTPException(500, "Internal Server Error")
          [] result.kind = "none" -> HTTPException(404, "Result not found")
          [] status = "failed" /\ result.kind = "dict" ->
                HTTPException(500, Get(result.data, "error", "Unknown error occurred"))
          [] OTHER ->
                Ok([topic |-> Get(result.data, "topic", ""),
                    summary |-> Get(result.data, "summary", ""),
                    papers |-> ResponsePapers(Get(result.data, "papers", <<>>)),
                    key_insights |-> Get(result.data, "key_insights", <<>>),
                    generated_diagrams |-> <<>>,
                    completed_at |-> Get(result.data, "completed_at", ""),
                    jobId |-> Get(result.data, "jobId", job_id)])

\* get_dynamic_research_result
get_dynamic_research_result ==
    /\ \/ \E job_id \in AllIds : Arrive("dynamic_result", job_id)
       \/ /\ query.kind = "dynamic_result" /\ query.pc = "exists"
          /\ LET status == get_job_status(query.job_id)
             IN  IF NotReady(status)
                 THEN /\ query' = [query EXCEPT !.pc = "responded",
                                                !.status = status]
                      /\ response' = HTTPException(400, "Job is still " \o status)
                 ELSE /\ query' = [query EXCEPT !.pc = "status",
                                                !.status = status]
                      /\ UNCHANGED response
       \/ /\ query.kind = "dynamic_result" /\ query.pc = "status"
          /\ Respond(DynamicResultAnswer(query.job_id, query.status))
    /\ UNCHANGED <<job_statuses, job_topics, results_dir, variant, pc, papers,
                   result_data, error_message>>
    /\ UNCHANGED llm_response

\* the response has been sent: the request is over
Sent ==
    /\ query.pc = "responded"
    /\ query' = NoQuery
    /\ response' = NoResponse
    /\ UNCHANGED <<job_statuses, job_topics, results_dir, variant, pc, papers,
                   result_data, error_message>>
    /\ UNCHANGED llm_response

----------------------------------------------------------------------------
(* The system *)

\* the search_papers calls that can run at the same time, one per job thread
Retrievers == {"r1", "r2"}

\* downloaded_papers does not exist; `files` has the name of each PDF in it
NoDirectory == [exists |-> FALSE, files |-> {}]

\* a call that has not been made: its position, whether the index answers,
\* the hits the index has yet to yield, the hit of the iteration, paper_info,
\* results, whether doc is open, the documents whose iteration ended, those
\* found in the directory, and whether an exception left the call
NotCalled ==
    [pc |-> "idle", index |-> "ok", hits |-> <<>>, hit |-> None,
     paper_info |-> None, results |-> <<>>, doc |-> FALSE, processed |-> {},
     cached |-> {}, raised |-> FALSE]

\* a result file an earlier process left for OldId
OldFile ==
    JsonFile([report |-> "old", sources |-> <<>>, completed_at |-> Timestamp,
              jobId |-> OldId, topic |-> "AI"])

\* the process has started: no job, no request
InitJobs ==
    /\ job_statuses = <<>>
    /\ job_topics = <<>>
    /\ results_dir = (OldId :> OldFile)
    /\ variant = [j \in JobIds |-> "none"]
    /\ pc = [j \in JobIds |-> "none"]
    /\ papers = [j \in JobIds |-> <<>>]
    /\ result_data = [j \in JobIds |-> NoRecord]
    /\ error_message = [j \in JobIds |-> None]
    /\ query = NoQuery
    /\ response = NoResponse
    /\ llm_response = [j \in JobIds |-> None]
    /\ log = [j \in JobIds |-> <<>>]
    /\ download_dir = NoDirectory
    /\ retrieval = [r \in Retrievers |-> NotCalled]

Init ==
    /\ InitJobs
    /\ input = <<>>
    /\ output = <<>>
    /\ phase = "off"

\* the history is not recorded and no function-level specification runs
Quiet == UNCHANGED <<log, input, output, phase, download_dir, retrieval>>

\* the steps of the background functions
Background ==
    \/ \E j \in JobIds : run_research_job(j)
    \/ \E j \in JobIds : run_dynamic_research_job(j)

\* jobs with a non-empty topic, and every query endpoint
Next ==
    \/ (\E job_id \in JobIds, topic \in NonEmptyTopics :
            submit_research(job_id, topic)) /\ Quiet
    \/ (\E job_id \in JobIds, topic \in NonEmptyTopics :
            submit_dynamic_research(job_id, topic)) /\ Quiet
    \/ Background /\ Quiet
    \/ get_research_status /\ Quiet
    \/ get_research_result /\ Quiet
    \/ get_dynamic_research_result /\ Quiet
    \/ Sent /\ Quiet

Spec == Init /\ [][Next]_vars

\* each background function, once queued, keeps being scheduled, every
\* external call returns or raises, and every response is sent
FairSpec ==
    /\ Spec
    /\ \A j \in JobIds : WF_vars(run_research_job(j) /\ Quiet)
    /\ \A j \in JobIds : WF_vars(run_dynamic_research_job(j) /\ Quiet)
    /\ WF_vars(Sent /\ Quiet)

\* jobs with any topic, the empty one included, and the status endpoint
NextAnyTopic ==
    \/ (\E job_id \in JobIds, topic \in Topics :
            submit_research(job_id, topic)) /\ Quiet
    \/ (\E job_id \in JobIds, topic \in Topics :
            submit_dynamic_research(job_id, topic)) /\ Quiet
    \/ Background /\ Quiet
    \/ get_research_status /\ Quiet
    \/ Sent /\ Quiet

SpecAnyTopic == Init /\ [][NextAnyTopic]_vars

\* jobs with any topic and no query: submission and execution alone
NextSubmit ==
    \/ (\E job_id \in JobIds, topic \in Topics :
            submit_research(job_id, topic)) /\ Quiet
    \/ (\E job_id \in JobIds, topic \in Topics :
            submit_dynamic_research(job_id, topic)) /\ Quiet
    \/ Background /\ Quiet
    \/ Sent /\ Quiet

SpecSubmit == Init /\ [][NextSubmit]_vars

----------------------------------------------------------------------------
(* api.py: the background functions with the history of their steps *)

\* the step job j takes is recorded: log[j] lists the positions of its
\* background function that were executed, in order, each with the position
\* it led to and the number of papers the job then held
Logged(j) ==
    /\ log' = [log EXCEPT ![j] = Append(@, [at |-> pc[j], to |-> pc'[j],
                                            papers |-> Len(papers'[j])])]
    /\ UNCHANGED <<input, output, phase, download_dir, retrieval>>

\* submission and execution of jobs, every executed step recorded
NextHistory ==
    \/ (\E job_id \in JobIds, topic \in NonEmptyTopics :
            submit_research(job_id, topic)) /\ Quiet
    \/ (\E job_id \in JobIds, topic \in NonEmptyTopics :
            submit_dynamic_research(job_id, topic)) /\ Quiet
    \/ \E j \in JobIds : run_research_job(j) /\ Logged(j)
    \/ \E j \in JobIds : run_dynamic_research_job(j) /\ Logged(j)
    \/ Sent /\ Quiet

SpecHistory == Init /\ [][NextHistory]_vars

----------------------------------------------------------------------------
(* job_manager.py: the Result Store alone, called with any result *)

\* the variables of the jobs, which a function-level specification leaves alone
JobVars == <<job_statuses, job_topics, variant, pc, papers, result_data,
             error_message, query, response, llm_response,
             download_dir, retrieval>>

\* the results the pipelines hand to save_result for a job
StoredResults(job_id) ==
    {StaticResult(job_id, topic, out) : topic \in NonEmptyTopics, out \in CrewOutputs}
    \cup {StaticErrorResult(job_id, topic, msg) :
              topic \in NonEmptyTopics, msg \in {SaveError}}
    \cup {DynamicResult(job_id, topic, found, llm_data) :
              topic \in NonEmptyTopics, found \in PaperLists, llm_data \in LlmData}
    \cup {DynamicErrorResult(job_id, topic, msg) :
              topic \in NonEmptyTopics, msg \in {SaveError}}

\* a call of save_result; log[job_id] keeps the last call made for the job:
\* its argument when it returned, how it ended, and whether the job had
\* another result on file when it was made
StoreSave(job_id, result, outcome) ==
    /\ save_result(job_id, result, outcome)
    /\ log' = [log EXCEPT ![job_id] =
                  <<[result |-> IF outcome = "ok" THEN result ELSE NoRecord,
                     outcome |-> outcome,
                     replaces |-> /\ load_result(job_id).kind = "dict"
                                  /\ load_result(job_id).data # result]>>]
    /\ input' = job_id
    /\ output' = <<>>
    /\ phase' = "saved"
    /\ UNCHANGED JobVars

\* a call of load_result; output keeps what it returned (or that it raised)
StoreLoad(job_id) ==
    /\ input' = job_id
    /\ output' = load_result(job_id)
    /\ phase' = "loaded"
    /\ UNCHANGED <<results_dir, log>>
    /\ UNCHANGED JobVars

NextStore ==
    \/ \E job_id \in JobIds, outcome \in SaveOutcomes :
           \E result \in StoredResults(job_id) : StoreSave(job_id, result, outcome)
    \/ \E job_id \in AllIds : StoreLoad(job_id)

SpecStore == Init /\ [][NextStore]_vars

----------------------------------------------------------------------------
(* api.py: the parsing block alone, applied to any reply *)

MaxResponseParts == 3

\* the pieces replies are made of: fence markers, white space, prose, JSON
\* objects with none, some or all of the fields, a truncated object and
\* braces around prose
ResponseParts ==
    { <<FENCE, "json">>, <<FENCE>>, <<" ">>, <<"x">>,
      <<"{", "}">>,
      <<"{", SummaryS, "}">>,
      <<"{", InsightsA, "}">>,
      <<"{", SummaryT, ",", InsightsA, ",", DiagramsG, "}">>,
      <<"{", SummaryS>>,
      <<"{", "x", "}">> }

RECURSIVE Concatenations(_, _)
\* the texts made of at most n of the parts
Concatenations(parts, n) ==
    IF n = 0 THEN {<<>>}
    ELSE LET shorter == Concatenations(parts, n - 1)
         IN  shorter \cup {text \o part : text \in shorter, part \in parts}

Responses == Concatenations(ResponseParts, MaxResponseParts)

\* groq_llm.call has returned the reply
InitParser ==
    /\ InitJobs
    /\ input \in Responses
    /\ output = <<>>
    /\ phase = "received"

\* lines 264-316: the reply is parsed and result_data takes its fields, or
\* the exception of the parsing block reaches the handler of the job
ParseReply ==
    /\ phase = "received"
    /\ output' = LET parsed == parse_llm_response(input)
                 IN  IF parsed.raised
                     THEN [raised |-> TRUE, fields |-> NoRecord]
                     ELSE [raised |-> FALSE, fields |-> ParsedFields(parsed.llm_data)]
    /\ phase' = "parsed"
    /\ UNCHANGED <<input, log, results_dir>>
    /\ UNCHANGED JobVars

NextParser == ParseReply

SpecParser == InitParser /\ [][NextParser]_vars

----------------------------------------------------------------------------
(* api.py: extract_sources_from_output, applied to any text *)

\* The tokens of an output: the two schemes, runs of URL characters that end
\* in a letter, a full stop, brackets, parentheses and white space.
Schemes == {"https://", "http://"}
Bodies == {"a.com/x", "b.org/y", "ab"}
Punctuation == {".", ")"}

RECURSIVE Width(_)
\* len(): the number of characters of a text
Width(text) ==
    IF text = <<>> THEN 0
    ELSE Width(Tail(text)) +
         (CASE Head(text) = "https://" -> 8
            [] Head(text) = "http://" -> 7
            [] Head(text) \in {"a.com/x", "b.org/y"} -> 7
            [] Head(text) = "ab" -> 2
            [] OTHER -> 1)

\* the characters the first class of url_pattern accepts, and those its
\* last class accepts (which excludes .,;:!? as well)
UrlInner(token) == token \in Schemes \cup Bodies \cup {"."}
UrlLast(token) == token \in Schemes \cup Bodies

\* url_pattern matched at position i: the scheme, then the longest run of
\* accepted characters, at least two, that ends in one the last class accepts
UrlEnd(output_text, i) ==
    LET ends == {k \in i + 1..Len(output_text) :
                    /\ \A n \in i + 1..k : UrlInner(output_text[n])
                    /\ UrlLast(output_text[k])
                    /\ Width(SubSeq(output_text, i + 1, k)) >= 2}
    IN  IF output_text[i] \in Schemes /\ ends # {} THEN Max(ends) ELSE 0

RECURSIVE FindUrls(_, _)
\* re.findall(url_pattern, output): the matches from position i on, left to
\* right, none overlapping another
FindUrls(output_text, i) ==
    IF i > Len(output_text) THEN <<>>
    ELSE IF UrlEnd(output_text, i) = 0 THEN FindUrls(output_text, i + 1)
         ELSE <<SubSeq(output_text, i, UrlEnd(output_text, i))>>
              \o FindUrls(output_text, UrlEnd(output_text, i) + 1)

\* markdown_link_pattern matched at position i: [ then text up to the first ]
\* then ( and a scheme, then everything up to the first ); the positions of
\* the URL, or none
LinkUrl(output_text, i) ==
    LET closes == {k \in i + 2..Len(output_text) : output_text[k] = "]"}
        j == Min(closes)
        parens == {m \in j + 4..Len(output_text) : output_text[m] = ")"}
    IN  IF /\ output_text[i] = "["
           /\ closes # {}
           /\ output_text[i + 1] # "]"
           /\ j + 2 <= Len(output_text)
           /\ output_text[j + 1] = "("
           /\ output_text[j + 2] \in Schemes
           /\ parens # {}
           /\ output_text[j + 3] # ")"
        THEN <<j + 2, Min(parens) - 1>>
        ELSE <<>>

RECURSIVE FindLinks(_, _)
\* re.findall(markdown_link_pattern, output): the URLs of the links
FindLinks(output_text, i) ==
    IF i > Len(output_text) THEN <<>>
    ELSE IF LinkUrl(output_text, i) = <<>> THEN FindLinks(output_text, i + 1)
         ELSE <<SubSeq(output_text, LinkUrl(output_text, i)[1],
                       LinkUrl(output_text, i)[2])>>
              \o FindLinks(output_text, LinkUrl(output_text, i)[2] + 2)

\* an extractor that keeps the trailing punctuation
rstrip_nothing(url) == url

\* url.rstrip(".,;:!?)")
rstrip(url) ==
    LET solid == {i \in 1..Len(url) : url[i] \notin Punctuation}
    IN  IF solid = {} THEN <<>> ELSE SubSeq(url, 1, Max(solid))

RECURSIVE Validated(_, _)
\* lines 59-70: each candidate is cleaned and kept when it is new, longer
\* than 10 characters and has a scheme in it
Validated(urls, sources) ==
    IF urls = <<>> THEN sources
    ELSE LET url == rstrip(Head(urls))
         IN  Validated(Tail(urls),
                       IF /\ \A n \in 1..Len(sources) : sources[n] # url
                          /\ Width(url) > 10
                          /\ \E n \in 1..Len(url) : url[n] \in Schemes
                       THEN Append(sources, url) ELSE sources)

extract_sources_from_output(output_text) ==
    Validated(FindUrls(output_text, 1) \o FindLinks(output_text, 1), <<>>)

MaxOutputParts == 3

\* the pieces outputs are made of: bare URLs long and short, markdown links
\* (one with white space in its target, one with parentheses, one with a
\* full stop at its end), punctuation and white space
OutputParts ==
    { <<"https://", "a.com/x">>, <<"https://", "b.org/y">>,
      <<"https://", "ab">>, <<"http://", "ab">>,
      <<"[", "ab", "]", "(", "https://", "a.com/x", ")">>,
      <<"[", "ab", "]", "(", "https://", "a.com/x", " ", "ab", ")">>,
      <<"[", "ab", "]", "(", "https://", "a.com/x", "(", "ab", ")", ")">>,
      <<"[", "ab", "]", "(", "https://", "b.org/y", ".", ")">>,
      <<".">>, <<" ">>, <<")">> }

Outputs == Concatenations(OutputParts, MaxOutputParts)

\* a task of the crew has produced its output
InitExtract ==
    /\ InitJobs
    /\ input \in Outputs
    /\ output = <<>>
    /\ phase = "received"

Extract ==
    /\ phase = "received"
    /\ output' = extract_sources_from_output(input)
    /\ phase' = "extracted"
    /\ UNCHANGED <<input, log, results_dir>>
    /\ UNCHANGED JobVars

NextExtract == Extract

SpecExtract == InitExtract /\ [][NextExtract]_vars

----------------------------------------------------------------------------
(* arxiv_tool.py: search_papers alone, over any batch of hits *)

MaxHits == 2

\* a hit: its title, whether its PDF is already in the download directory,
\* is downloaded or the download raises, and whether its extraction raises
Hits ==
    [title : {"P", "Q"}, fetch : {"cached", "ok", "raise"}, extract : {"ok", "raise"}]

RECURSIVE Batches(_)
\* the batches of at most n hits, in ranked order
Batches(n) ==
    IF n = 0 THEN {<<>>}
    ELSE Batches(n - 1) \cup {Append(batch, hit) : batch \in Batches(n - 1), hit \in Hits}

Retrievals ==
    {[index |-> "raise", hits |-> <<>>]}
    \cup {[index |-> "ok", hits |-> batch] : batch \in Batches(MaxHits)}

\* search_papers has been called
InitRetrieve ==
    /\ InitJobs
    /\ input \in Retrievals
    /\ output = <<>>
    /\ phase = "called"

Retrieve ==
    /\ phase = "called"
    /\ output' = search_papers(input)
    /\ phase' = "returned"
    /\ UNCHANGED <<input, log, results_dir>>
    /\ UNCHANGED JobVars

NextRetrieve == Retrieve

SpecRetrieve == InitRetrieve /\ [][NextRetrieve]_vars

----------------------------------------------------------------------------
(* Properties *)

Terminal == {"completed", "failed"}

\* the result file of job_id exists (load_result's result_file.exists())
ResultExists(job_id) == job_id \in DOMAIN results_dir

ResultQuery == query.kind \in {"result", "dynamic_result"}
Responded == query.pc = "responded"

\* C1: the registry status of a job only ever steps None -> pending ->
\* running -> completed or running -> failed: no step skips running, goes
\* backward, or leaves completed or failed.
C1_StatusLifecycle ==
    [][\A j \in JobIds :
         LET old == get_job_status(j)
             new == get_job_status(j)'
         IN  old # new =>
               <<old, new>> \in {<<"None", "pending">>, <<"pending", "running">>,
                                 <<"running", "completed">>, <<"running", "failed">>}
      ]_vars

C1_Witness ==
    \E j, k \in JobIds :
        /\ get_job_status(j) = "completed" /\ variant[j] = "static"
        /\ get_job_status(k) = "failed" /\ variant[k] = "dynamic"

\* C2 (as claimed): for every job of this process a Result file exists if and
\* only if the job's status is completed or failed.
C2_ResultIffTerminal ==
    \A j \in DOMAIN job_statuses :
        ResultExists(j) <=> job_statuses[j] \in Terminal

\* C2 (amended): a job whose status is completed or failed has a decodable
\* Result, and a job that has a Result file is not pending; the file may be
\* there while the status is still running.
C2_ResultWhenTerminal ==
    \A j \in DOMAIN job_statuses :
        /\ job_statuses[j] \in Terminal => load_result(j).kind = "dict"
        /\ ResultExists(j) => job_statuses[j] # "pending"

C2_Witness ==
    \E j, k \in DOMAIN job_statuses :
        /\ job_statuses[j] = "running" /\ ResultExists(j)
        /\ job_statuses[k] \in Terminal /\ load_result(k).kind = "dict"

\* C3: a result query that read the status completed or failed never answers
\* "Result not found" (nor fails to decode the file): the Result is on disk
\* before the terminal status is.
C3_TerminalQueryFindsResult ==
    (ResultQuery /\ Responded /\ query.status \in Terminal)
        => /\ response # HTTPException(404, "Result not found")
           /\ response # HTTPException(500, "Internal Server Error")
           /\ response.code \in {200, 500}

C3_Witness ==
    /\ ResultQuery /\ Responded /\ query.status = "completed"
    /\ response.code = 200
    /\ \E k \in JobIds : k # query.job_id /\ pc[k] \in {"save", "except_save"}

\* C4: a result query (either endpoint) that read the status pending or
\* running answers "not ready" (400) and carries no payload, whatever the
\* Result Store holds.
C4_NotReadyWhileRunning ==
    (ResultQuery /\ Responded /\ query.status \in {"pending", "running"})
        => /\ response.code = 400
           /\ response.body = NoRecord

C4_Witness ==
    /\ ResultQuery /\ Responded /\ query.status = "running"
    /\ response.code = 400
    /\ load_result(query.job_id).kind = "dict"

\* C5 (as claimed): under fair scheduling every dispatched job eventually has
\* status completed or failed.
C5_EventuallyTerminal ==
    \A j \in JobIds : (pc[j] = "queued") ~> (get_job_status(j) \in Terminal)

\* the background function of j is over and did not end in completed: its
\* body raised
EndedByError(j) ==
    /\ pc[j] \in {"done", "crashed"}
    /\ get_job_status(j) # "completed"

\* C6 (as claimed): when the pipeline body raised, the job ends failed and
\* its Result holds a non-empty error string, the topic, the job id and a
\* completion timestamp.
C6_FailureRecorded ==
    \A j \in JobIds :
        EndedByError(j) =>
            /\ get_job_status(j) = "failed"
            /\ load_result(j).kind = "dict"
            /\ LET r == load_result(j).data
               IN  /\ Get(r, "error", "") # ""
                   /\ Get(r, "topic", None) = job_topics[j]
                   /\ Get(r, "jobId", None) = j
                   /\ Get(r, "completed_at", "") # ""

\* C7 (as claimed): the answer of the dynamic result endpoint for a completed
\* dynamic job repeats every field of the persisted Result, the diagram list
\* included (papers: the fields of the response's paper model).
C7_DynamicResponseIsResult ==
    ( /\ query.kind = "dynamic_result" /\ Responded /\ response.code = 200
      /\ query.job_id \in JobIds /\ variant[query.job_id] = "dynamic" )
        => LET r == load_result(query.job_id).data
               b == response.body
           IN  /\ b.topic = r.topic
               /\ b.summary = r.summary
               /\ b.papers = ResponsePapers(r.papers)
               /\ b.key_insights = r.key_insights
               /\ b.generated_diagrams = r.generated_diagrams
               /\ b.completed_at = r.completed_at
               /\ b.jobId = r.jobId

\* C8 (as claimed): the status query of a known job answers the job's id,
\* the status it read from the registry and exactly the topic recorded at
\* creation, whatever the topic.
C8_StatusAnswer ==
    (query.kind = "status" /\ Responded /\ query.job_id \in DOMAIN job_statuses)
        => /\ response.code = 200
           /\ response.body.job_id = query.job_id
           /\ response.body.status = query.status
           /\ response.body.topic = job_topics[query.job_id]

\* job_id was never returned by create_job in this process
NeverCreated(job_id) == job_id = OldId \/ pc[job_id] = "none"

\* C9: for an id create_job never returned, job_exists is false and the
\* status query and both result queries answer 404 "Job not found", with or
\* without a Result file of that id on disk.
C9_UnknownJobNotFound ==
    \A job_id \in AllIds :
        NeverCreated(job_id) =>
            /\ ~job_exists(job_id)
            /\ ( /\ query.job_id = job_id /\ Responded
                 /\ query.kind \in {"status", "result", "dynamic_result"} )
                   => response = HTTPException(404, "Job not found")

C9_Witness ==
    /\ query.job_id = OldId /\ Responded /\ ResultQuery
    /\ ResultExists(OldId)
    /\ response.code = 404
    /\ \E j \in JobIds : get_job_status(j) \in Terminal

\* C10: a submission takes an id the registry did not know; right after it
\* the id exists, its status is pending and its topic is the submitted one,
\* and the response reports pending, the registry's status at that moment.
C10_CreateThenPending ==
    [][\A id \in JobIds :
         (query'.kind = "submit" /\ query.kind # "submit" /\ query'.job_id = id) =>
             /\ ~job_exists(id)
             /\ job_exists(id)'
             /\ get_job_status(id)' = "pending"
             /\ get_job_topic(id)' = Some(response'.body.topic)
             /\ response'.code = 200
             /\ response'.body.job_id = id
             /\ response'.body.status = get_job_status(id)'
      ]_vars

C10_Witness ==
    /\ query.kind = "submit" /\ Responded
    /\ get_job_status(query.job_id) = "pending"
    /\ get_job_topic(query.job_id) = Some("")
    /\ \E k \in JobIds : k # query.job_id /\ get_job_status(k) = "running"

\* C11: load_result after a save_result that returned gives a dict equal to
\* the one saved, also when an earlier save for the same job stored another
\* one (the last value saved wins), and load_result of a job for which no
\* file exists returns None and does not raise.
C11_LoadAfterSave ==
    phase = "loaded" /\ input \in JobIds =>
        /\ log[input] = <<>> => output.kind = "none"
        /\ log[input] # <<>> /\ log[input][1].outcome = "ok" =>
              output.kind = "dict" /\ output.data = log[input][1].result

\* a load that follows two saves of different values for the same job, the
\* second of which returned
C11_Witness ==
    /\ phase = "loaded" /\ input \in JobIds
    /\ log[input] # <<>> /\ log[input][1].outcome = "ok" /\ log[input][1].replaces
    /\ output.kind = "dict" /\ output.data = log[input][1].result

\* the background function of job j has returned or was left by an exception
Ended(j) == pc[j] \in {"done", "crashed"}

\* the positions job j executed, in order
Positions(j) == [i \in 1..Len(log[j]) |-> log[j][i].at]

\* the positions of job j's history at which save_result was invoked
SaveCalls(j) == SelectSeq(Positions(j), LAMBDA at : at \in {"save", "except_save"})

\* C12 as stated: over the lifetime of a job save_result is invoked exactly
\* once, whatever raises: never a second time, and once when the job ended.
C12_SavedExactlyOnce ==
    \A j \in JobIds :
        /\ Len(SaveCalls(j)) <= 1
        /\ Ended(j) => Len(SaveCalls(j)) = 1

\* C12 amended: a job that ended invoked save_result once, by the success
\* path or by the except handler, or twice when the save of the success path
\* raised and the except handler then saved the error record; save_result is
\* never invoked after a save that returned.
C12_SavedOnceOrAgainAfterRaise ==
    \A j \in JobIds :
        /\ SaveCalls(j) \in {<<>>, <<"save">>, <<"except_save">>,
                             <<"save", "except_save">>}
        /\ Ended(j) => SaveCalls(j) # <<>>
        /\ \A i \in 1..Len(log[j]) :
              log[j][i].at \in {"save", "except_save"} /\ log[j][i].to \in {"set_completed", "set_failed"} =>
                  \A k \in i + 1..Len(log[j]) : log[j][k].at \notin {"save", "except_save"}

\* a job whose success-path save raised and whose except handler saved again
C12_Witness ==
    \E j \in JobIds : Ended(j) /\ SaveCalls(j) = <<"save", "except_save">>

\* C13: whatever text the LLM returned, the parsing block does not raise and
\* yields summary, key_insights and generated_diagrams: the reply never
\* sends the job to its except handler, so never makes it end failed.
C13_ParserNeverRaises ==
    phase = "parsed" =>
        /\ ~output.raised
        /\ DOMAIN output.fields = {"summary", "key_insights", "generated_diagrams"}

\* a reply with an opening brace in which neither pattern matches was parsed
C13_Witness ==
    /\ phase = "parsed"
    /\ code_block_match(input) = NoMatch
    /\ json_match(input) = NoMatch
    /\ \E i \in 1..Len(input) : input[i] = "{"
    /\ output.fields.key_insights = InsightsSentinel

\* the object the fenced block of a reply decodes to, if it does
FencedObject(reply) ==
    IF code_block_match(reply).found
    THEN json_loads(code_block_match(reply).group) ELSE NoData

\* the object the span between the outermost braces decodes to, if it does
BracedObject(reply) ==
    IF json_match(reply).found THEN json_loads(json_match(reply).group) ELSE NoData

\* what the whole-text fallback yields
FallbackFields(reply) == ParsedFields(whole_text_fallback(reply).llm_data)

\* C14: the first tier whose decode succeeds wins: when the fenced block
\* decodes to an object the result is taken from that object; else when the
\* span between the outermost braces decodes, from that one; and the
\* whole-text fallback is used only when both fail.
C14_FirstSuccessWins ==
    phase = "parsed" =>
        IF FencedObject(input).ok
        THEN output.fields = ParsedFields(FencedObject(input).value)
        ELSE IF BracedObject(input).ok
             THEN output.fields = ParsedFields(BracedObject(input).value)
             ELSE output.fields = FallbackFields(input)

\* the object the parsing block decoded: the fenced one, else the braced one
DecodedObject(reply) ==
    IF FencedObject(reply).ok THEN FencedObject(reply) ELSE BracedObject(reply)

EmptyDefault(field) == IF field = "summary" THEN EmptyText ELSE <<>>

\* C15: when an object was decoded, whichever of the three fields it has,
\* the empty selection included, each field of the result is the object's
\* when present and the empty default when missing, and the result is not
\* the whole-text fallback's.
C15_MissingFieldsDefault ==
    phase = "parsed" /\ DecodedObject(input).ok =>
        /\ ~output.raised
        /\ \A field \in {"summary", "key_insights", "generated_diagrams"} :
              output.fields[field] =
                  IF field \in DOMAIN DecodedObject(input).value
                  THEN DecodedObject(input).value[field]
                  ELSE EmptyDefault(field)
        /\ output.fields.key_insights # InsightsSentinel

\* a reply without JSON-like structure: no brace in it
PlainProse(reply) == \A i \in 1..Len(reply) : reply[i] \notin {"{", "}"}

\* the positions of a text that are not part of a fence marker
Unfenced(text) ==
    {i \in 1..Len(text) :
        /\ text[i] # FENCE
        /\ ~(text[i] = "json" /\ i > 1 /\ text[i - 1] = FENCE)}

RECURSIVE Restrict(_, _)
\* the tokens of a text at the positions kept, in order
Restrict(text, kept) ==
    IF kept = {} THEN <<>>
    ELSE Restrict(text, kept \ {Max(kept)}) \o <<text[Max(kept)]>>

\* C16 as stated: plain prose comes back as the summary, equal to the
\* reply, with the sentinel as only insight and no diagram.
C16_ProseIsSummary ==
    phase = "parsed" /\ PlainProse(input) =>
        /\ output.fields.summary = input
        /\ output.fields.key_insights = InsightsSentinel
        /\ output.fields.generated_diagrams = <<>>

\* C16 amended: for plain prose the summary is the reply without its fence
\* markers and without the white space at its two ends (so the reply itself
\* when it has neither), the sentinel is the only insight and there is no
\* diagram.
C16_ProseCleanedIsSummary ==
    phase = "parsed" /\ PlainProse(input) =>
        LET solid == {i \in Unfenced(input) : input[i] # " "}
            kept == {i \in Unfenced(input) : solid # {} /\ Min(solid) <= i /\ i <= Max(solid)}
        IN  /\ output.fields.summary = Restrict(input, kept)
            /\ kept = 1..Len(input) => output.fields.summary = input
            /\ output.fields.key_insights = InsightsSentinel
            /\ output.fields.generated_diagrams = <<>>

\* prose between fence markers and white space was parsed: the summary is
\* the prose alone
C16_Witness ==
    /\ phase = "parsed" /\ PlainProse(input)
    /\ \E i \in 1..Len(input) : input[i] = FENCE
    /\ input[1] = " "
    /\ output.fields.summary = <<"x">>

\* the first position at which a URL occurs in a text
FirstOccurrence(text, url) ==
    Min({i \in 1..Len(text) - Len(url) + 1 : SubSeq(text, i, i + Len(url) - 1) = url})

\* what the extractor promises of each URL: trailing punctuation stripped, at
\* least 11 characters, a scheme in front; and no URL twice
CleanAndDistinct(sources) ==
    /\ \A a, b \in 1..Len(sources) : a # b => sources[a] # sources[b]
    /\ \A n \in 1..Len(sources) :
          /\ sources[n][Len(sources[n])] \notin Punctuation
          /\ Width(sources[n]) >= 11
          /\ sources[n][1] \in Schemes

\* C17 as stated: no URL twice, each one clean, at least 11 characters long
\* and with its scheme, and the URLs in the order of their first occurrence
\* in the text, bare or inside a markdown link.
C17_UrlsInTextOrder ==
    phase = "extracted" =>
        /\ CleanAndDistinct(output)
        /\ \A a, b \in 1..Len(output) :
              a < b => FirstOccurrence(input, output[a]) <= FirstOccurrence(input, output[b])

\* the candidates of one pattern, cleaned
Cleaned(urls) == [n \in 1..Len(urls) |-> rstrip(urls[n])]

\* the place of a URL among the candidates: the matches of the bare pattern
\* come first, the targets of the markdown links after them
Rank(text, url) ==
    LET bare == Cleaned(FindUrls(text, 1))
        links == Cleaned(FindLinks(text, 1))
    IN  IF \E n \in 1..Len(bare) : bare[n] = url
        THEN Min({n \in 1..Len(bare) : bare[n] = url})
        ELSE Len(bare) + Min({n \in 1..Len(links) : links[n] = url})

\* C17 amended: no URL twice, each one clean, at least 11 characters long
\* and with its scheme; first come the matches of the bare pattern in the
\* order of the text, then the targets of markdown links that the bare
\* pattern did not match as a whole, in the order of the links.
C17_BareThenLinks ==
    phase = "extracted" =>
        /\ CleanAndDistinct(output)
        /\ \A n \in 1..Len(output) :
              \/ \E k \in 1..Len(FindUrls(input, 1)) :
                     output[n] = rstrip(FindUrls(input, 1)[k])
              \/ \E k \in 1..Len(FindLinks(input, 1)) :
                     output[n] = rstrip(FindLinks(input, 1)[k])
        /\ \A a, b \in 1..Len(output) :
              a < b => Rank(input, output[a]) < Rank(input, output[b])

\* a link whose target has white space in it, then a bare URL: the target
\* comes last in the list, and the link and the bare occurrence of its first
\* part gave one entry
C17_Witness ==
    /\ phase = "extracted"
    /\ Len(output) = 3
    /\ FirstOccurrence(input, output[3]) < FirstOccurrence(input, output[2])
    /\ \E n \in 1..Len(output[3]) : output[3][n] = " "

\* the papers returned are those of the hits, in ranked order: a hit whose
\* extraction raised with the error as content and no image, any other hit
\* with its text and images
BatchKept(hits, found) ==
    /\ Len(found) = Len(hits)
    /\ \A k \in 1..Len(hits) :
          /\ k <= Len(found)
          /\ found[k].title = hits[k].title
          /\ IF hits[k].extract = "raise"
             THEN found[k].content = ExtractionError /\ found[k].images = <<>>
             ELSE found[k].content = "text" /\ found[k].images # <<>>

\* C18 as stated: every document whose extraction raises is in the list at
\* its rank with the error as content and no image, every other document is
\* processed, and as many papers are returned as there were hits.
C18_ExtractionErrorIsolated ==
    phase = "returned" => BatchKept(input.hits, output.papers)

\* C18 amended: the same, for a batch all of whose downloads succeeded (or
\* were not needed); when a download raises the call returns no paper at all.
C18_IsolatedUnlessFetchFails ==
    phase = "returned" =>
        /\ ~output.raised
        /\ IF \A k \in 1..Len(input.hits) : input.hits[k].fetch # "raise"
           THEN BatchKept(input.hits, output.papers)
           ELSE output.papers = <<>>

\* two hits, the extraction of the first raised: both papers are returned
C18_Witness ==
    /\ phase = "returned"
    /\ Len(input.hits) = 2
    /\ input.hits[1].fetch # "raise" /\ input.hits[1].extract = "raise"
    /\ input.hits[2].fetch # "raise" /\ input.hits[2].extract = "ok"
    /\ Len(output.papers) = 2
    /\ output.papers[1].content = ExtractionError
    /\ output.papers[2].content = "text"

\* job j executed the step at position `at` and it led to position `to`
Went(j, at, to) == \E i \in 1..Len(log[j]) : log[j][i].at = at /\ log[j][i].to = to

\* the search of job j returned the empty list
FoundNothing(j) ==
    \E i \in 1..Len(log[j]) :
        log[j][i].at = "search" /\ log[j][i].to = "llm" /\ log[j][i].papers = 0

\* job j has status completed and its Result has an empty list of papers
CompletedWithoutPapers(j) ==
    /\ get_job_status(j) = "completed"
    /\ load_result(j).kind = "dict"
    /\ "error" \notin DOMAIN load_result(j).data
    /\ load_result(j).data.papers = <<>>

\* C19 as stated: the search never takes the job to its except handler, it
\* hands a list to the synthesis; and a dynamic job whose search returned the
\* empty list (as it does when the index or a download fails) and whose LLM
\* call returned ends completed, with an empty list of papers.
C19_EmptySearchStillCompletes ==
    \A j \in JobIds :
        /\ \A i \in 1..Len(log[j]) : log[j][i].at = "search" => log[j][i].to = "llm"
        /\ Ended(j) /\ FoundNothing(j) /\ Went(j, "llm", "parse") =>
              CompletedWithoutPapers(j)

\* C19 amended: the same, provided the save of the Result returned as well.
C19_CompletesIfSaved ==
    \A j \in JobIds :
        /\ \A i \in 1..Len(log[j]) : log[j][i].at = "search" => log[j][i].to = "llm"
        /\ Ended(j) /\ FoundNothing(j) /\ Went(j, "llm", "parse")
              /\ Went(j, "save", "set_completed") =>
              CompletedWithoutPapers(j)

\* a dynamic job whose search returned nothing has ended completed
C19_Witness ==
    \E j \in JobIds :
        /\ Ended(j) /\ FoundNothing(j) /\ Went(j, "llm", "parse")
        /\ Went(j, "save", "set_completed")
        /\ CompletedWithoutPapers(j)

\* the place of a position in the order of the steps; the save of the
\* success path and the save of the except handler are both the Result save,
\* the two status updates are both the terminal status
StepRank(at) ==
    CASE at = "queued" -> 1
      [] at = "search" -> 2
      [] at = "llm" -> 3
      [] at = "parse" -> 4
      [] at \in {"save", "except_save"} -> 5
      [] at \in {"set_completed", "set_failed"} -> 6

\* how often job j executed the step at a position
Times(j, at) == Cardinality({i \in 1..Len(log[j]) : log[j][i].at = at})

\* C20: a dynamic job sets its status to running first, then retrieves,
\* calls the LLM, parses, saves and sets the terminal status, in this order;
\* the LLM is called once in every execution, also when nothing was found,
\* and neither the search nor the LLM call is made again after it failed.
C20_StepsInOrderOnce ==
    \A j \in JobIds : variant[j] = "dynamic" =>
        /\ log[j] # <<>> => log[j][1].at = "queued" /\ j \in DOMAIN job_statuses
        /\ pc[j] \notin {"none", "queued"} => log[j] # <<>>
        /\ \A i, k \in 1..Len(log[j]) :
              i < k => \/ StepRank(log[j][i].at) < StepRank(log[j][k].at)
                       \/ log[j][i].at = "save" /\ log[j][k].at = "except_save"
        /\ Times(j, "search") <= 1 /\ Times(j, "llm") <= 1
        /\ Ended(j) => Times(j, "search") = 1 /\ Times(j, "llm") = 1
        /\ Went(j, "save", "set_completed") => Went(j, "parse", "save")
        /\ Went(j, "parse", "save") => Went(j, "llm", "parse")

\* a dynamic job that found nothing went through every step and ended
C20_Witness ==
    \E j \in JobIds :
        /\ variant[j] = "dynamic" /\ Ended(j) /\ FoundNothing(j)
        /\ Positions(j) = <<"queued", "search", "llm", "parse", "save", "set_completed">>

----------------------------------------------------------------------------
(* job_manager.py: the Job Registry alone, called with any id and status *)

\* the values update_job_status is called with, and one no caller uses
Statuses == {"pending", "running", "completed", "failed", "archived"}

\* the registry as a value
Registry == [job_statuses |-> job_statuses, job_topics |-> job_topics]

\* the variables a call of the registry leaves alone
StoreVars == <<results_dir, variant, pc, papers, result_data, error_message,
               query, response, llm_response, log, download_dir, retrieval>>

\* a call of create_job: uuid4 gives an id the registry does not hold
RegistryCreate(job_id, topic) ==
    /\ job_id \notin DOMAIN job_statuses
    /\ create_job(job_id, topic)
    /\ input' = [job_id |-> job_id, status |-> "pending"]
    /\ output' = Registry
    /\ phase' = "created"
    /\ UNCHANGED StoreVars

\* a call of update_job_status with any id, known to the registry or not;
\* output keeps the registry as it was when the call was made
RegistryUpdate(job_id, status) ==
    /\ update_job_status(job_id, status)
    /\ UNCHANGED job_topics
    /\ input' = [job_id |-> job_id, status |-> status]
    /\ output' = Registry
    /\ phase' = "updated"
    /\ UNCHANGED StoreVars

NextRegistry ==
    \/ \E job_id \in JobIds, topic \in Topics : RegistryCreate(job_id, topic)
    \/ \E job_id \in AllIds, status \in Statuses : RegistryUpdate(job_id, status)

SpecRegistry == Init /\ [][NextRegistry]_vars

----------------------------------------------------------------------------
(* arxiv_tool.py: the extraction of text and images from an opened document *)

\* line 73: doc[:5]
PageLimit == 5

\* line 85: len(image_bytes) < 1000
MinImageBytes == 1000

\* line 73, doc[:5]: the pages the loop visits
first_pages(pages) == SubSeq(pages, 1, Min({Len(pages), PageLimit}))

\* an image filter that also drops an image of exactly the minimum size
image_kept_above(image_bytes) == image_bytes > MinImageBytes

\* lines 85-86: an image below the minimum size is skipped
image_kept(image_bytes) == ~(image_bytes < MinImageBytes)

\* line 88: f"{entry}_p{page_index}_i{img_index}.{image_ext}", entry being
\* result.entry_id.split('/')[-1]
image_filename(entry, page_index, img_index, image_ext) ==
    <<entry, "_p", page_index, "_i", img_index, ".", image_ext>>

\* line 96: f"/static/extracted_images/{image_filename}"
image_relative_path(filename) == <<"/static/extracted_images/">> \o filename

RECURSIVE PageImages(_, _, _, _, _)
\* lines 78-97, the loop over enumerate(image_list) from img_index on
PageImages(entry, page_index, image_list, img_index, extracted_images) ==
    IF img_index >= Len(image_list) THEN extracted_images
    ELSE LET base_image == image_list[img_index + 1]
         IN  PageImages(entry, page_index, image_list, img_index + 1,
                 IF image_kept(base_image.size)
                 THEN Append(extracted_images,
                             image_relative_path(
                                 image_filename(entry, page_index, img_index,
                                                base_image.ext)))
                 ELSE extracted_images)

RECURSIVE DocPages(_, _, _, _, _)
\* lines 73-97, the loop over enumerate(doc[:5]) from page_index on
DocPages(entry, visited, page_index, text, extracted_images) ==
    IF page_index >= Len(visited)
    THEN [content |-> text, images |-> extracted_images]
    ELSE LET page == visited[page_index + 1]
         IN  DocPages(entry, visited, page_index + 1, text \o page.text,
                      PageImages(entry, page_index, page.images, 0,
                                 extracted_images))

\* lines 67-100: text and extracted_images of an opened document
extract_document(entry, pages) ==
    DocPages(entry, first_pages(pages), 0, <<>>, <<>>)

\* the most pages a document has
MaxPages == 6

\* the pages of the documents: their text, and their embedded images with
\* the number of bytes and the extension extract_image reports
Pages ==
    { [text |-> <<"a">>, images |-> <<>>],
      [text |-> <<"b">>, images |-> <<[size |-> 999, ext |-> "png"]>>],
      [text |-> <<"c", "d">>,
       images |-> <<[size |-> 999, ext |-> "png"], [size |-> 1000, ext |-> "jpeg"]>>],
      [text |-> <<>>, images |-> <<[size |-> 1001, ext |-> "png"]>>] }

\* the documents of at least one and at most MaxPages pages
Documents ==
    {[entry |-> "2401.00001v1", pages |-> pages] :
        pages \in Concatenations({<<page>> : page \in Pages}, MaxPages) \ {<<>>}}

\* fitz.open returned a document
InitPages ==
    /\ InitJobs
    /\ input \in Documents
    /\ output = <<>>
    /\ phase = "opened"

ExtractDocument ==
    /\ phase = "opened"
    /\ output' = extract_document(input.entry, input.pages)
    /\ phase' = "extracted"
    /\ UNCHANGED <<input, log, results_dir>>
    /\ UNCHANGED JobVars

NextPages == ExtractDocument

SpecPages == InitPages /\ [][NextPages]_vars

----------------------------------------------------------------------------
(* arxiv_tool.py: search_papers step by step, on the shared download directory *)

\* the variables a step of search_papers leaves alone
OutsideRetrieval ==
    <<job_statuses, job_topics, results_dir, variant, pc, papers, result_data,
      error_message, query, response, llm_response, log, input, output, phase>>

\* line 57: the name of the PDF of the hit call r is at (its document id)
pdf_filename(r) == retrieval[r].hit[1].title

\* the calls that are writing the PDF `name` (inside download_pdf)
Writers(name) ==
    {q \in Retrievers : /\ retrieval[q].pc = "download_end"
                        /\ retrieval[q].hit[1].title = name}

\* the calls that hold the PDF `name` open (between fitz.open and doc.close)
Readers(name) ==
    {q \in Retrievers : retrieval[q].doc /\ retrieval[q].hit[1].title = name}

\* the locals of call r become rec
Locals(r, rec) == retrieval' = [retrieval EXCEPT ![r] = rec]

\* lines 118-120: the outer except clause returns []
OuterExcept(r) ==
    Locals(r, [retrieval[r] EXCEPT !.pc = "returned", !.results = <<>>,
                                   !.doc = FALSE])

\* lines 107-109: the inner except clause overwrites the content
InnerExcept(r) ==
    Locals(r, [retrieval[r] EXCEPT
                  !.pc = "append", !.doc = FALSE,
                  !.paper_info = Some(ExtractionFailed(retrieval[r].paper_info[1]))])

\* search_papers is called; the index will answer with scenario.hits or raise
retriever_call(r, scenario) ==
    /\ retrieval[r].pc = "idle"
    /\ Locals(r, [retrieval[r] EXCEPT !.pc = "makedirs",
                                      !.index = scenario.index,
                                      !.hits = scenario.hits])
    /\ UNCHANGED download_dir
    /\ UNCHANGED OutsideRetrieval

\* line 37: os.makedirs(download_dir, exist_ok=True)
retriever_makedirs(r) ==
    /\ retrieval[r].pc = "makedirs"
    /\ download_dir' = [download_dir EXCEPT !.exists = TRUE]
    /\ Locals(r, [retrieval[r] EXCEPT !.pc = "results"])
    /\ UNCHANGED OutsideRetrieval

\* lines 45-58: the next result of search.results(), which queries the index
\* when first asked, and the paper_info of the hit
retriever_next_result(r) ==
    /\ retrieval[r].pc = "results"
    /\ IF retrieval[r].index = "raise" THEN OuterExcept(r)
       ELSE IF retrieval[r].hits = <<>>
       THEN Locals(r, [retrieval[r] EXCEPT !.pc = "cleanup"])
       ELSE Locals(r, [retrieval[r] EXCEPT
                          !.pc = "cache_check",
                          !.hit = Some(Head(retrieval[r].hits)),
                          !.hits = Tail(retrieval[r].hits),
                          !.paper_info = Some(paper_info(Head(retrieval[r].hits)))])
    /\ UNCHANGED download_dir
    /\ UNCHANGED OutsideRetrieval

\* line 61: if not os.path.exists(pdf_path)
retriever_cache_check(r) ==
    /\ retrieval[r].pc = "cache_check"
    /\ IF pdf_filename(r) \in download_dir.files
       THEN Locals(r, [retrieval[r] EXCEPT
                          !.pc = "open",
                          !.cached = @ \cup {pdf_filename(r)}])
       ELSE Locals(r, [retrieval[r] EXCEPT !.pc = "download"])
    /\ UNCHANGED download_dir
    /\ UNCHANGED OutsideRetrieval

\* line 62, download_pdf: the request raises, or the file cannot be created
\* because the directory is gone, or the file is created and being written
retriever_download(r) ==
    /\ retrieval[r].pc = "download"
    /\ IF retrieval[r].hit[1].fetch = "raise" \/ ~download_dir.exists
       THEN OuterExcept(r) /\ UNCHANGED download_dir
       ELSE /\ download_dir' = [download_dir EXCEPT
                                   !.files = @ \cup {pdf_filename(r)}]
            /\ Locals(r, [retrieval[r] EXCEPT !.pc = "download_end"])
    /\ UNCHANGED OutsideRetrieval

\* line 62, download_pdf returns: the file is written and closed
retriever_download_end(r) ==
    /\ retrieval[r].pc = "download_end"
    /\ Locals(r, [retrieval[r] EXCEPT !.pc = "open"])
    /\ UNCHANGED download_dir
    /\ UNCHANGED OutsideRetrieval

\* line 66, fitz.open(pdf_path): raises when the file is missing; a file
\* another call is still writing may be refused or accepted
retriever_open(r) ==
    /\ retrieval[r].pc = "open"
    /\ \/ /\ pdf_filename(r) \in download_dir.files
          /\ Locals(r, [retrieval[r] EXCEPT !.pc = "extract", !.doc = TRUE])
       \/ /\ \/ pdf_filename(r) \notin download_dir.files
             \/ Writers(pdf_filename(r)) # {}
          /\ InnerExcept(r)
    /\ UNCHANGED download_dir
    /\ UNCHANGED OutsideRetrieval

\* lines 67-101: the pages are read, content and images are assigned and the
\* document is closed, unless the extraction raises
retriever_extract(r) ==
    /\ retrieval[r].pc = "extract"
    /\ IF retrieval[r].hit[1].extract = "raise"
       THEN InnerExcept(r)
       ELSE Locals(r, [retrieval[r] EXCEPT
                          !.pc = "remove_check", !.doc = FALSE,
                          !.paper_info = Some(Extracted(retrieval[r].paper_info[1]))])
    /\ UNCHANGED download_dir
    /\ UNCHANGED OutsideRetrieval

\* line 104: if os.path.exists(pdf_path)
retriever_remove_check(r) ==
    /\ retrieval[r].pc = "remove_check"
    /\ IF pdf_filename(r) \in download_dir.files
       THEN Locals(r, [retrieval[r] EXCEPT !.pc = "remove"])
       ELSE Locals(r, [retrieval[r] EXCEPT !.pc = "append"])
    /\ UNCHANGED download_dir
    /\ UNCHANGED OutsideRetrieval

\* line 105, os.remove(pdf_path): raises when the file is gone; a file
\* another call holds open or is writing is removed, or refused where the
\* platform locks files in use
retriever_remove(r) ==
    /\ retrieval[r].pc = "remove"
    /\ \/ /\ pdf_filename(r) \in download_dir.files
          /\ download_dir' = [download_dir EXCEPT !.files = @ \ {pdf_filename(r)}]
          /\ Locals(r, [retrieval[r] EXCEPT !.pc = "append"])
       \/ /\ \/ pdf_filename(r) \notin download_dir.files
             \/ Readers(pdf_filename(r)) \cup Writers(pdf_filename(r)) # {}
          /\ InnerExcept(r)
          /\ UNCHANGED download_dir
    /\ UNCHANGED OutsideRetrieval

\* line 111: results.append(paper_info)
retriever_append(r) ==
    /\ retrieval[r].pc = "append"
    /\ Locals(r, [retrieval[r] EXCEPT
                     !.pc = "results",
                     !.results = Append(@, retrieval[r].paper_info[1]),
                     !.processed = @ \cup {pdf_filename(r)}])
    /\ UNCHANGED download_dir
    /\ UNCHANGED OutsideRetrieval

\* line 114, os.path.exists(download_dir); line 117 when it does not
retriever_cleanup(r) ==
    /\ retrieval[r].pc = "cleanup"
    /\ IF download_dir.exists
       THEN Locals(r, [retrieval[r] EXCEPT !.pc = "listdir"])
       ELSE Locals(r, [retrieval[r] EXCEPT !.pc = "returned"])
    /\ UNCHANGED download_dir
    /\ UNCHANGED OutsideRetrieval

\* line 114, os.listdir(download_dir): raises when the directory is gone;
\* line 117 when the directory has files
retriever_listdir(r) ==
    /\ retrieval[r].pc = "listdir"
    /\ IF ~download_dir.exists THEN OuterExcept(r)
       ELSE IF download_dir.files # {}
       THEN Locals(r, [retrieval[r] EXCEPT !.pc = "returned"])
       ELSE Locals(r, [retrieval[r] EXCEPT !.pc = "rmdir"])
    /\ UNCHANGED download_dir
    /\ UNCHANGED OutsideRetrieval

\* line 115, os.rmdir(download_dir): raises when the directory is gone or
\* has a file again; then line 117
retriever_rmdir(r) ==
    /\ retrieval[r].pc = "rmdir"
    /\ IF ~download_dir.exists \/ download_dir.files # {}
       THEN OuterExcept(r) /\ UNCHANGED download_dir
       ELSE /\ download_dir' = [download_dir EXCEPT !.exists = FALSE]
            /\ Locals(r, [retrieval[r] EXCEPT !.pc = "returned"])
    /\ UNCHANGED OutsideRetrieval

\* the steps of a call after it was made
retriever_step(r) ==
    \/ retriever_makedirs(r)
    \/ retriever_next_result(r)
    \/ retriever_cache_check(r)
    \/ retriever_download(r)
    \/ retriever_download_end(r)
    \/ retriever_open(r)
    \/ retriever_extract(r)
    \/ retriever_remove_check(r)
    \/ retriever_remove(r)
    \/ retriever_append(r)
    \/ retriever_cleanup(r)
    \/ retriever_listdir(r)
    \/ retriever_rmdir(r)

\* the most hits the index yields to a call
MaxBatch == 2

\* a hit on the document P: whether its download and its extraction raise
CacheHits == [title : {"P"}, fetch : {"ok", "raise"}, extract : {"ok", "raise"}]

\* what the index answers to a call
CacheScenarios ==
    {[index |-> "raise", hits |-> <<>>]}
    \cup {[index |-> "ok", hits |-> batch] :
             batch \in Concatenations({<<hit>> : hit \in CacheHits}, MaxBatch)}

\* one job at a time: a call is made when no other call is running
NextCache ==
    \/ \E r \in Retrievers, scenario \in CacheScenarios :
           /\ \A q \in Retrievers : retrieval[q].pc \in {"idle", "returned"}
           /\ retriever_call(r, scenario)
    \/ \E r \in Retrievers : retriever_step(r)

SpecCache == Init /\ [][NextCache]_vars

\* jobs on concurrent threads: the steps of the calls interleave
NextRace ==
    \/ \E r \in Retrievers, scenario \in CacheScenarios : retriever_call(r, scenario)
    \/ \E r \in Retrievers : retriever_step(r)

SpecRace == Init /\ [][NextRace]_vars

----------------------------------------------------------------------------
(* properties of the Job Registry *)

\* C21: update_job_status on an id the registry does not know leaves the
\* whole registry as it was (statuses, topics and the set of known ids); on
\* a known id it sets that job's status to the given value, whatever the
\* status was, and changes no other job's status, no topic and no known id.
C21_UpdateOnlyKnownJob ==
    phase = "updated" =>
        /\ DOMAIN job_statuses = DOMAIN output.job_statuses
        /\ job_topics = output.job_topics
        /\ \A k \in DOMAIN job_statuses :
               job_statuses[k] = IF k = input.job_id
                                 THEN input.status
                                 ELSE output.job_statuses[k]
        /\ input.job_id \notin DOMAIN output.job_statuses
               => job_statuses = output.job_statuses

\* an id the registry does not know was updated while the registry held a
\* job that an earlier update had taken from pending to completed
C21_Witness ==
    /\ phase = "updated"
    /\ input.job_id \notin DOMAIN output.job_statuses
    /\ \E k \in DOMAIN job_statuses : job_statuses[k] = "completed"

----------------------------------------------------------------------------
(* properties of the extraction *)

RECURSIVE TextUpTo(_, _)
\* the text of pages 0..m-1, in page order
TextUpTo(pages, m) ==
    IF m = 0 THEN <<>> ELSE TextUpTo(pages, m - 1) \o pages[m].text

\* the embedded images of pages 0..m-1 of at least 1000 bytes, each as
\* <<page index, image index>>
LargeImages(pages, m) ==
    UNION {{<<p, i>> : i \in {i \in 0..(Len(pages[p + 1].images) - 1) :
                                  pages[p + 1].images[i + 1].size >= 1000}} :
           p \in 0..(m - 1)}

\* C23: for a document of n pages that was read without an error, the content
\* is the text of pages 0..min(n,5)-1 in page order, and the image list has
\* exactly one path <document-id>_p<page-index>_i<image-index>.<ext> for each
\* embedded image of those pages of at least 1000 bytes, in page-then-image
\* order, and no other path.
C23_FirstFivePagesLargeImages ==
    phase = "extracted" =>
        LET pages == input.pages
            m == IF Len(pages) < 5 THEN Len(pages) ELSE 5
            wanted == LargeImages(pages, m)
            named(k) == Tail(output.images[k])
        IN  /\ output.content = TextUpTo(pages, m)
            /\ Len(output.images) = Cardinality(wanted)
            /\ \A at \in wanted :
                   \E k \in 1..Len(output.images) :
                       named(k) = <<input.entry, "_p", at[1], "_i", at[2], ".",
                                    pages[at[1] + 1].images[at[2] + 1].ext>>
            /\ \A k \in 1..Len(output.images) :
                   <<named(k)[3], named(k)[5]>> \in wanted
            /\ \A k1, k2 \in 1..Len(output.images) :
                   k1 < k2 =>
                       \/ named(k1)[3] < named(k2)[3]
                       \/ named(k1)[3] = named(k2)[3] /\ named(k1)[5] < named(k2)[5]

\* a document of six pages was read: its fifth page has a small image before
\* one of exactly 1000 bytes, its sixth page has text and a large image
C23_Witness ==
    /\ phase = "extracted"
    /\ Len(input.pages) = 6
    /\ input.pages[5].images # <<>> /\ input.pages[5].images[1].size = 999
    /\ Len(input.pages[5].images) = 2
    /\ input.pages[6].images # <<>> /\ input.pages[6].images[1].size = 1001
    /\ input.pages[1].text = <<"a">>
    /\ output.images = <<<<"/static/extracted_images/", "2401.00001v1",
                           "_p", 4, "_i", 1, ".", "jpeg">>>>

----------------------------------------------------------------------------
(* properties of the terminal statuses *)

\* the result file of job j decodes to a record
HasRecord(j) == load_result(j).kind = "dict"

\* C24: in every reachable state a job with status completed has a persisted
\* Result without an error field and a job with status failed has a persisted
\* Result with an error field, also when the save of the success record
\* raised and the except handler then saved the error record.
C24_StatusMatchesRecord ==
    \A j \in DOMAIN job_statuses :
        /\ job_statuses[j] = "completed" =>
               HasRecord(j) /\ "error" \notin DOMAIN load_result(j).data
        /\ job_statuses[j] = "failed" =>
               HasRecord(j) /\ "error" \in DOMAIN load_result(j).data

\* a job is failed after the save of its success record had raised and the
\* except handler had saved the error record, while another job is completed
C24_Witness ==
    \E j, k \in DOMAIN job_statuses :
        /\ job_statuses[j] = "failed"
        /\ Went(j, "save", "except_save")
        /\ Went(j, "except_save", "set_failed")
        /\ load_result(j).data.error = SaveError
        /\ job_statuses[k] = "completed"
        /\ "error" \notin DOMAIN load_result(k).data

----------------------------------------------------------------------------
(* properties of the interleaving of jobs and queries *)

\* what the registry and the store hold for job k
StatusOf(k) == get_job_status(k)
TopicOf(k) == get_job_topic(k)
FileOf(k) == IF k \in DOMAIN results_dir THEN Some(results_dir[k]) ELSE None

\* a step of the background function of job j
JobStep(j) == run_research_job(j) \/ run_dynamic_research_job(j)

\* a step of a handler that queries the status or the result of a job
QueryStep ==
    \/ get_research_status
    \/ get_research_result
    \/ get_dynamic_research_result
    \/ (Sent /\ query.kind # "submit")

\* C25: whatever the interleaving of the running jobs and the queries, a step
\* of the execution of job j leaves the status, the topic and the persisted
\* Result of every other job and the topic of j as they were, and a query
\* changes nothing in the registry and the store.
C25_JobsOwnTheirEntries ==
    [][ /\ \A j \in JobIds :
             JobStep(j) =>
                 /\ TopicOf(j)' = TopicOf(j)
                 /\ \A k \in AllIds \ {j} :
                        /\ StatusOf(k)' = StatusOf(k)
                        /\ TopicOf(k)' = TopicOf(k)
                        /\ FileOf(k)' = FileOf(k)
        /\ QueryStep => UNCHANGED <<job_statuses, job_topics, results_dir>>
      ]_vars

\* both jobs ran to their end while the other was known to the registry, one
\* to completed and one to failed, and a result query is being answered
C25_Witness ==
    \E j, k \in DOMAIN job_statuses :
        /\ job_statuses[j] = "completed" /\ job_statuses[k] = "failed"
        /\ HasRecord(j) /\ HasRecord(k)
        /\ pc[j] = "done" /\ pc[k] = "done"
        /\ ResultQuery /\ Responded

----------------------------------------------------------------------------
(* properties of the download directory *)

\* call r is between two iterations of its loop, or past the loop
BetweenDocuments(r) ==
    retrieval[r].pc \in {"results", "cleanup", "listdir", "rmdir", "returned"}

\* no other call than r is running
RunsAlone(r) ==
    \A q \in Retrievers \ {r} : retrieval[q].pc \in {"idle", "returned"}

\* C22: once a call has processed a document, on the path where the
\* extraction succeeded and on the path where it raised, the PDF of the
\* document is not in the download directory; so no PDF of a processed
\* document is there when the call returns, and no later call finds a PDF in
\* the directory instead of downloading it.
C22_NoPdfLeftCached ==
    \A r \in Retrievers :
        /\ (BetweenDocuments(r) /\ RunsAlone(r)) =>
               retrieval[r].processed \cap download_dir.files = {}
        /\ retrieval[r].cached = {}

\* C26: however the steps of two calls that process the same document
\* interleave on the shared directory, no call lets an exception out, and
\* every paper a call returns whose content is the extraction-error message
\* has no image.
C26_RaceIsHarmless ==
    \A r \in Retrievers :
        retrieval[r].pc = "returned" =>
            /\ ~retrieval[r].raised
            /\ \A k \in 1..Len(retrieval[r].results) :
                   retrieval[r].results[k].content = ExtractionError
                       => retrieval[r].results[k].images = <<>>

====
